---- MODULE Spec2Model ----
(***************************************************************************)
(* SnowboyWakeWordDetector (src/audio_processing/                         *)
(* snowboy_wake_word_detector.py): the detection lifecycle controller.     *)
(*                                                                         *)
(* Caller threads invoke start/stop/pause/resume/on_detected; every        *)
(* threading.Thread created by start() runs _detection_loop.  The object   *)
(* has no lock in use (stream_lock is created and never acquired), so the  *)
(* model interleaves at the granularity of one attribute read or write:    *)
(* an action is named after the method and the source line it executes.    *)
(***************************************************************************)
EXTENDS Integers, Sequences, FiniteSets, TLC

\* ---- bounds of the model ------------------------------------------------
NumCallers == 2      \* caller threads using the control surface
MaxThreads == 2      \* threading.Thread objects start() may create
NumModels == 2       \* wake-word models the controller is configured with
MaxCallbacks == 2    \* callbacks on_detected may register
MaxOps == 3          \* control-surface calls issued by concurrent callers
MaxSeqOps == 4       \* control-surface calls issued by a single caller
MaxCtorOps == 3      \* calls issued on a controller of arbitrary arguments
MaxFairOps == 3      \* calls issued by a single caller under fair scheduling

\* ---- identities ---------------------------------------------------------
\* Python's None for an object reference.
None == 0
\* Thread objects; the PyAudio, Stream and HotwordDetector objects a worker
\* creates are named by the worker that created them.
Threads == 1..MaxThreads
Callers == (MaxThreads + 1)..(MaxThreads + NumCallers)
Actors == Threads \cup Callers

VARIABLES
    \* fields of SnowboyWakeWordDetector
    model_paths, sensitivity, enabled,
    on_detected_callbacks, running, paused, detection_thread,
    audio, stream, detector,
    \* control state: position of every caller and every Thread object
    pc,
    \* outcome of the current or last call of each caller: "none" while it
    \* runs or when it returned None, "true"/"false" returned by start(),
    \* "start_raised"/"stop_raised" when an exception left the call
    ret,
    \* locals of _detection_loop / _trigger_callbacks, per worker
    strm, index, cbi, invoked, fatal,
    \* the external objects: PyAudio instance, Stream and HotwordDetector
    \* of each worker; the detector has reported a hotword since its last
    \* Reset ("matched") or not ("fresh")
    audioSt, streamSt, engine,
    \* history: calls issued and the number the behaviour may issue; "a
    \* caller's stop() has returned and no start() was issued since"; "some
    \* caller has called stop()"
    ops, budget, stopReturned, callerStopCalled

config == <<model_paths, sensitivity, enabled>>
flags == <<running, paused>>
handles == <<audio, stream, detector>>
wlocals == <<strm, index, cbi, invoked, fatal>>
objects == <<audioSt, streamSt, engine>>
history == <<ops, budget, stopReturned, callerStopCalled>>
vars == <<config, on_detected_callbacks, flags, detection_thread, handles,
          pc, ret, wlocals, objects, history>>

\* ---- construction -------------------------------------------------------
\* The model identifiers .pmdl/.umdl paths stand for.
ModelPath(i) == <<"model", i>>

AllModelPaths == [i \in 1..NumModels |-> ModelPath(i)]

\* str(s) of one sensitivity value.
Str(s) == <<"str", s>>

\* The sensitivity argument: <<"num", v>> for a float/int, <<"seq", q>> for
\* a sequence of values (values in tenths).
IsNumber(s) == s[1] = "num"

\* __init__ lines 28-31: a scalar sensitivity is broadcast, a sequence is
\* converted element by element.
InitSensitivity(mp, s) ==
    IF IsNumber(s)
    THEN [i \in 1..Len(mp) |-> Str(s[2])]
    ELSE [i \in 1..Len(s[2]) |-> Str(s[2][i])]

\* __init__ line 42.
InitEnabled(snowboy, mp) == snowboy /\ Len(mp) > 0

\* __init__ lines 27-42 for arguments (mp, s) with the snowboydecoder module
\* importable or not.
Construct(snowboy, mp, s) ==
    /\ model_paths = mp
    /\ sensitivity = InitSensitivity(mp, s)
    /\ enabled = InitEnabled(snowboy, mp)
    /\ on_detected_callbacks = <<>>
    /\ running = FALSE
    /\ paused = FALSE
    /\ detection_thread = None
    /\ audio = None
    /\ stream = None
    /\ detector = None

\* The state after construction: no call issued, no Thread created.
Fresh ==
    /\ pc = [a \in Actors |-> IF a \in Threads THEN "unborn" ELSE "idle"]
    /\ ret = [c \in Callers |-> "none"]
    /\ strm = [t \in Threads |-> None]
    /\ index = [t \in Threads |-> 0]
    /\ cbi = [t \in Threads |-> 0]
    /\ invoked = [t \in Threads |-> <<>>]
    /\ fatal = [t \in Threads |-> FALSE]
    /\ audioSt = [t \in Threads |-> "none"]
    /\ streamSt = [t \in Threads |-> "none"]
    /\ engine = [t \in Threads |-> "none"]
    /\ ops = 0
    /\ stopReturned = FALSE
    /\ callerStopCalled = FALSE

\* An enabled controller used by NumCallers concurrent caller threads.
Init ==
    /\ Construct(TRUE, AllModelPaths, <<"num", 5>>)
    /\ Fresh
    /\ budget = MaxOps

\* An enabled controller used by one caller thread, for the behaviours
\* checked under fair scheduling.
InitFair ==
    /\ Construct(TRUE, AllModelPaths, <<"num", 5>>)
    /\ Fresh
    /\ budget = MaxFairOps

\* An enabled controller used by one caller thread.
InitSeq ==
    /\ Construct(TRUE, AllModelPaths, <<"num", 5>>)
    /\ Fresh
    /\ budget = MaxSeqOps

\* The arguments of __init__ the model constructs controllers from: the
\* snowboydecoder module importable or not (lines 10-13), up to NumModels
\* model paths, and a sensitivity that is a number or a sequence of up to
\* NumModels + 1 numbers.
ModelPathArgs == {SubSeq(AllModelPaths, 1, n) : n \in 0..NumModels}

SensitivityArgs ==
    {<<"num", 5>>} \cup {<<"seq", [i \in 1..n |-> 5]>> : n \in 0..(NumModels + 1)}

\* A controller constructed from any of these arguments, used by one caller
\* thread.
InitCtor ==
    /\ \E snowboy \in BOOLEAN, mp \in ModelPathArgs, s \in SensitivityArgs :
          Construct(snowboy, mp, s)
    /\ Fresh
    /\ budget = MaxCtorOps

\* ---- helpers ------------------------------------------------------------
Goto(a, l) == pc' = [pc EXCEPT ![a] = l]

\* A caller's call returns with outcome r.
Return(c, r) ==
    /\ pc' = [pc EXCEPT ![c] = "idle"]
    /\ ret' = [ret EXCEPT ![c] = r]

\* A caller issues a call: it is idle and the budget of calls allows it.
Issue(c) ==
    /\ c \in Callers
    /\ pc[c] = "idle"
    /\ ops < budget
    /\ ops' = ops + 1

\* The call goes on to position l.
Enter(c, l) ==
    /\ pc' = [pc EXCEPT ![c] = l]
    /\ ret' = [ret EXCEPT ![c] = "none"]

\* Thread.is_alive(): started and not yet terminated.
IsAlive(t) == pc[t] \notin {"unborn", "new", "dead", "crashed"}

StartPcs == {"start_51", "start_52", "start_53", "start_54"}

\* Thread objects not yet constructed.
Unborn == {t \in Threads : pc[t] = "unborn"}

\* ---- is_running (lines 88-89) ------------------------------------------
\* is_running() that forgets the pause flag.
is_running_ignores_pause == running

is_running == running /\ ~paused

\* The controller state of the specification, read off the fields the
\* methods write: start() sets running, pause()/resume() toggle paused
\* under running, stop() clears running.
State ==
    IF running
    THEN (IF paused THEN "Paused" ELSE "Running")
    ELSE (IF detection_thread = None THEN "Idle" ELSE "Stopped")

\* ---- start (lines 44-56) -----------------------------------------------
\* start() without the test of line 45.
start_45_ignores_enabled(c) ==
    /\ Issue(c)
    /\ Cardinality(Unborn) > Cardinality({d \in Callers : pc[d] \in StartPcs})
    /\ stopReturned' = FALSE
    /\ IF running
       THEN Return(c, "true")
       ELSE Enter(c, "start_51")
    /\ UNCHANGED <<config, on_detected_callbacks, flags, detection_thread,
                   handles, wlocals, objects, budget, callerStopCalled>>

\* lines 45-50: the two early returns.  A call that would go on to create a
\* Thread is issued only while the model has a Thread object left for it.
start_45(c) ==
    /\ Issue(c)
    /\ Cardinality(Unborn) > Cardinality({d \in Callers : pc[d] \in StartPcs})
    /\ stopReturned' = FALSE
    /\ IF ~enabled
       THEN Return(c, "false")
       ELSE IF running
            THEN Return(c, "true")
            ELSE Enter(c, "start_51")
    /\ UNCHANGED <<config, on_detected_callbacks, flags, detection_thread,
                   handles, wlocals, objects, budget, callerStopCalled>>

start_51(c) ==
    /\ pc[c] = "start_51"
    /\ running' = TRUE
    /\ Goto(c, "start_52")
    /\ UNCHANGED <<config, on_detected_callbacks, paused, detection_thread,
                   handles, ret, wlocals, objects, history>>

\* start() without line 52: the pause flag of an earlier run survives.
start_52_keeps_pause(c) ==
    /\ pc[c] = "start_52"
    /\ Goto(c, "start_53")
    /\ UNCHANGED <<config, on_detected_callbacks, flags, detection_thread,
                   handles, ret, wlocals, objects, history>>

start_52(c) ==
    /\ pc[c] = "start_52"
    /\ paused' = FALSE
    /\ Goto(c, "start_53")
    /\ UNCHANGED <<config, on_detected_callbacks, running, detection_thread,
                   handles, ret, wlocals, objects, history>>

\* line 53: a new Thread object, not started, stored in detection_thread.
start_53(c) ==
    /\ pc[c] = "start_53"
    /\ \E t \in Unborn :
         /\ \A u \in Unborn : t <= u
         /\ detection_thread' = t
         /\ pc' = [pc EXCEPT ![c] = "start_54", ![t] = "new"]
    /\ UNCHANGED <<config, on_detected_callbacks, flags, handles, ret,
                   wlocals, objects, history>>

\* line 54: self.detection_thread is read again and started; Thread.start()
\* raises RuntimeError for a thread that was started before.
start_54(c) ==
    /\ pc[c] = "start_54"
    /\ IF pc[detection_thread] = "new"
       THEN /\ pc' = [pc EXCEPT ![c] = "idle", ![detection_thread] = "w_106"]
            /\ ret' = [ret EXCEPT ![c] = "true"]
       ELSE Return(c, "start_raised")
    /\ UNCHANGED <<config, on_detected_callbacks, flags, detection_thread,
                   handles, wlocals, objects, history>>

\* ---- pause / resume (lines 78-86) --------------------------------------
\* pause() without the test of line 79.
pause_79_unguarded(c) ==
    /\ Issue(c)
    /\ Enter(c, "pause_80")
    /\ UNCHANGED <<config, on_detected_callbacks, flags, detection_thread,
                   handles, wlocals, objects, budget, stopReturned,
                   callerStopCalled>>

pause_79(c) ==
    /\ Issue(c)
    /\ IF running /\ ~paused
       THEN Enter(c, "pause_80")
       ELSE Return(c, "none")
    /\ UNCHANGED <<config, on_detected_callbacks, flags, detection_thread,
                   handles, wlocals, objects, budget, stopReturned,
                   callerStopCalled>>

pause_80(c) ==
    /\ pc[c] = "pause_80"
    /\ paused' = TRUE
    /\ Return(c, "none")
    /\ UNCHANGED <<config, on_detected_callbacks, running, detection_thread,
                   handles, wlocals, objects, history>>

resume_84(c) ==
    /\ Issue(c)
    /\ IF running /\ paused
       THEN Enter(c, "resume_85")
       ELSE Return(c, "none")
    /\ UNCHANGED <<config, on_detected_callbacks, flags, detection_thread,
                   handles, wlocals, objects, budget, stopReturned,
                   callerStopCalled>>

resume_85(c) ==
    /\ pc[c] = "resume_85"
    /\ paused' = FALSE
    /\ Return(c, "none")
    /\ UNCHANGED <<config, on_detected_callbacks, running, detection_thread,
                   handles, wlocals, objects, history>>

\* ---- on_detected (lines 91-92) -----------------------------------------
\* Callbacks are named by their registration number.
on_detected(c) ==
    /\ Issue(c)
    /\ Len(on_detected_callbacks) < MaxCallbacks
    /\ on_detected_callbacks' =
         Append(on_detected_callbacks, Len(on_detected_callbacks) + 1)
    /\ Return(c, "none")
    /\ UNCHANGED <<config, flags, detection_thread, handles, wlocals,
                   objects, budget, stopReturned, callerStopCalled>>

\* ---- stop (lines 58-76) ------------------------------------------------
\* stop() is run by a caller and, from the finally clause of
\* _detection_loop (line 129), by the worker itself.

\* stop() returns: to the caller, or to _detection_loop, which then ends.
StopReturn(a) ==
    IF a \in Callers
    THEN /\ Return(a, "none")
         /\ stopReturned' = TRUE
    ELSE /\ Goto(a, "dead")
         /\ UNCHANGED <<ret, stopReturned>>

\* stop() raises: out of the caller's call, or out of the finally clause, so
\* that the worker thread ends with an uncaught exception.
StopRaise(a) ==
    IF a \in Callers
    THEN Return(a, "stop_raised")
    ELSE /\ Goto(a, "crashed")
         /\ UNCHANGED ret

stop_59(a) ==
    /\ \/ /\ Issue(a)
          /\ callerStopCalled' = TRUE
          /\ ret' = [ret EXCEPT ![a] = "none"]
       \/ /\ a \in Threads
          /\ pc[a] = "stop_59"
          /\ UNCHANGED <<ops, callerStopCalled, ret>>
    /\ running' = FALSE
    /\ Goto(a, "stop_60")
    /\ UNCHANGED <<config, on_detected_callbacks, paused, detection_thread,
                   handles, wlocals, objects, budget, stopReturned>>

stop_60(a) ==
    /\ pc[a] = "stop_60"
    /\ IF detection_thread # None /\ IsAlive(detection_thread)
       THEN Goto(a, "stop_61")
       ELSE Goto(a, "stop_62")
    /\ UNCHANGED <<config, on_detected_callbacks, flags, detection_thread,
                   handles, ret, wlocals, objects, history>>

\* line 61, the call: Thread.join raises RuntimeError when the thread is the
\* current thread and when it has not been started.
stop_61(a) ==
    /\ pc[a] = "stop_61"
    /\ IF detection_thread = a \/ pc[detection_thread] = "new"
       THEN StopRaise(a)
       ELSE Goto(a, "stop_61_join") /\ UNCHANGED ret
    /\ UNCHANGED <<config, on_detected_callbacks, flags, detection_thread,
                   handles, wlocals, objects, history>>

\* line 61 as join() without a timeout: it returns when the thread has
\* ended.
stop_61_join_unbounded(a) ==
    /\ pc[a] = "stop_61_join"
    /\ ~IsAlive(detection_thread)
    /\ Goto(a, "stop_62")
    /\ UNCHANGED <<config, on_detected_callbacks, flags, detection_thread,
                   handles, ret, wlocals, objects, history>>

\* line 61, the return: the joined thread has ended or the timeout of 1.0 s
\* has elapsed, whichever is first.
stop_61_join(a) ==
    /\ pc[a] = "stop_61_join"
    /\ Goto(a, "stop_62")
    /\ UNCHANGED <<config, on_detected_callbacks, flags, detection_thread,
                   handles, ret, wlocals, objects, history>>

\* lines 62-65 without the try/except of lines 63-67: a failure of
\* is_active() or stop_stream() leaves stop().
stop_62_unguarded(a) ==
    /\ pc[a] = "stop_62"
    /\ IF stream = None
       THEN Goto(a, "stop_69") /\ UNCHANGED <<streamSt, ret>>
       ELSE IF streamSt[stream] = "closed"
            THEN StopRaise(a) /\ UNCHANGED streamSt
            ELSE IF streamSt[stream] = "active"
                 THEN \/ /\ streamSt' = [streamSt EXCEPT ![stream] = "stopped"]
                         /\ Goto(a, "stop_66")
                         /\ UNCHANGED ret
                      \/ /\ StopRaise(a)
                         /\ UNCHANGED streamSt
                 ELSE Goto(a, "stop_66") /\ UNCHANGED <<streamSt, ret>>
    /\ UNCHANGED <<config, on_detected_callbacks, flags, detection_thread,
                   handles, wlocals, audioSt, engine, history>>

\* lines 62-65: with a stream set, is_active() and, for an active stream,
\* stop_stream().  An AttributeError (the stream became None), the error of
\* a closed stream and a failure of stop_stream() all go to the except
\* clause of line 67, past close().
stop_62(a) ==
    /\ pc[a] = "stop_62"
    /\ IF stream = None \/ streamSt[stream] = "closed"
       THEN Goto(a, "stop_69") /\ UNCHANGED streamSt
       ELSE IF streamSt[stream] = "active"
            THEN \/ /\ streamSt' = [streamSt EXCEPT ![stream] = "stopped"]
                    /\ Goto(a, "stop_66")
                 \/ /\ Goto(a, "stop_69")
                    /\ UNCHANGED streamSt
            ELSE Goto(a, "stop_66") /\ UNCHANGED streamSt
    /\ UNCHANGED <<config, on_detected_callbacks, flags, detection_thread,
                   handles, ret, wlocals, audioSt, engine, history>>

\* line 66: close() closes the stream or raises.
stop_66(a) ==
    /\ pc[a] = "stop_66"
    /\ IF stream = None \/ streamSt[stream] = "closed"
       THEN UNCHANGED streamSt
       ELSE \/ streamSt' = [streamSt EXCEPT ![stream] = "closed"]
            \/ UNCHANGED streamSt
    /\ Goto(a, "stop_69")
    /\ UNCHANGED <<config, on_detected_callbacks, flags, detection_thread,
                   handles, ret, wlocals, audioSt, engine, history>>

\* lines 69-73: with a device set, terminate() releases it or raises.
stop_69(a) ==
    /\ pc[a] = "stop_69"
    /\ IF audio = None
       THEN UNCHANGED audioSt
       ELSE \/ audioSt' = [audioSt EXCEPT ![audio] = "terminated"]
            \/ UNCHANGED audioSt
    /\ Goto(a, "stop_74")
    /\ UNCHANGED <<config, on_detected_callbacks, flags, detection_thread,
                   handles, ret, wlocals, streamSt, engine, history>>

stop_74(a) ==
    /\ pc[a] = "stop_74"
    /\ stream' = None
    /\ Goto(a, "stop_75")
    /\ UNCHANGED <<config, on_detected_callbacks, flags, detection_thread,
                   audio, detector, ret, wlocals, objects, history>>

stop_75(a) ==
    /\ pc[a] = "stop_75"
    /\ audio' = None
    /\ StopReturn(a)
    /\ UNCHANGED <<config, on_detected_callbacks, flags, detection_thread,
                   stream, detector, wlocals, objects, ops, budget,
                   callerStopCalled>>

\* ---- _trigger_callbacks / _detection_loop (lines 94-129) ---------------
\* f"唤醒词索引: {index}"
Label(i) == <<"label", i>>

\* model_paths[index] with Python's zero-based index.
PathAt(i) == model_paths[i + 1]

\* What RunDetection may return: -2 silence, -1 error, 0 no hotword, and
\* k > 0 for the k-th model.
AnsValues == (-2)..Len(model_paths)

\* An exception inside the try block after which the worker starts over.
Except_retries(t) ==
    /\ pc' = [pc EXCEPT ![t] = "w_106"]
    /\ fatal' = [fatal EXCEPT ![t] = TRUE]

\* An exception inside the try block: logged at line 127, then the finally
\* clause.
Except(t) ==
    /\ pc' = [pc EXCEPT ![t] = "stop_59"]
    /\ fatal' = [fatal EXCEPT ![t] = TRUE]

\* lines 106-108: the HotwordDetector is constructed and stored, then
\* pyaudio.PyAudio(); either constructor may raise.  (The early return of
\* lines 102-104 is not reached: a worker exists only when enabled holds,
\* and enabled implies that snowboydecoder was imported.)
loop_106(t) ==
    /\ pc[t] = "w_106"
    /\ \/ /\ detector' = t
          /\ engine' = [engine EXCEPT ![t] = "fresh"]
          /\ audio' = t
          /\ audioSt' = [audioSt EXCEPT ![t] = "open"]
          /\ Goto(t, "w_109")
          /\ UNCHANGED fatal
       \/ /\ detector' = t
          /\ engine' = [engine EXCEPT ![t] = "fresh"]
          /\ Except(t)
          /\ UNCHANGED <<audio, audioSt>>
       \/ /\ Except(t)
          /\ UNCHANGED <<detector, engine, audio, audioSt>>
    /\ UNCHANGED <<config, on_detected_callbacks, flags, detection_thread,
                   stream, ret, strm, index, cbi, invoked, streamSt,
                   history>>

\* lines 109-115: self.audio is read again (AttributeError when a stop() has
\* cleared it); open() yields a started input stream on a live device, or
\* raises.
loop_109(t) ==
    /\ pc[t] = "w_109"
    /\ \/ /\ audio # None
          /\ audioSt[audio] = "open"
          /\ stream' = t
          /\ streamSt' = [streamSt EXCEPT ![t] = "active"]
          /\ Goto(t, "w_116")
          /\ UNCHANGED fatal
       \/ /\ Except(t)
          /\ UNCHANGED <<stream, streamSt>>
    /\ UNCHANGED <<config, on_detected_callbacks, flags, detection_thread,
                   audio, detector, ret, strm, index, cbi, invoked,
                   audioSt, engine, history>>

\* the loop condition as `while self.running or self.paused`.
loop_116_waits_while_paused(t) ==
    /\ pc[t] = "w_116"
    /\ IF running \/ paused THEN Goto(t, "w_117") ELSE Goto(t, "stop_59")
    /\ UNCHANGED <<config, on_detected_callbacks, flags, detection_thread,
                   handles, ret, wlocals, objects, history>>

\* line 116: the loop condition.
loop_116(t) ==
    /\ pc[t] = "w_116"
    /\ IF running THEN Goto(t, "w_117") ELSE Goto(t, "stop_59")
    /\ UNCHANGED <<config, on_detected_callbacks, flags, detection_thread,
                   handles, ret, wlocals, objects, history>>

\* the loop without the pause test of line 117.
loop_117_ignores_pause(t) ==
    /\ pc[t] = "w_117"
    /\ Goto(t, "w_120")
    /\ UNCHANGED <<config, on_detected_callbacks, flags, detection_thread,
                   handles, ret, wlocals, objects, history>>

\* lines 117-119: paused: sleep 0.1 s and test the loop condition again.
loop_117(t) ==
    /\ pc[t] = "w_117"
    /\ IF paused THEN Goto(t, "w_116") ELSE Goto(t, "w_120")
    /\ UNCHANGED <<config, on_detected_callbacks, flags, detection_thread,
                   handles, ret, wlocals, objects, history>>

\* line 120, the call: self.stream is read (AttributeError when None) and
\* the blocking read begins; a stream that is closed or stopped refuses it.
loop_120(t) ==
    /\ pc[t] = "w_120"
    /\ IF stream = None \/ streamSt[stream] # "active"
       THEN Except(t) /\ UNCHANGED strm
       ELSE /\ strm' = [strm EXCEPT ![t] = stream]
            /\ Goto(t, "w_121")
            /\ UNCHANGED fatal
    /\ UNCHANGED <<config, on_detected_callbacks, flags, detection_thread,
                   handles, ret, index, cbi, invoked, objects, history>>

\* lines 120-123 with the test of line 122 as ans >= 0.
loop_121_matches_zero(t) ==
    /\ pc[t] = "w_121"
    /\ strm' = [strm EXCEPT ![t] = None]
    /\ \/ \E ans \in AnsValues :
            /\ engine' = IF ans > 0
                         THEN [engine EXCEPT ![detector] = "matched"]
                         ELSE engine
            /\ IF ans >= 0
               THEN /\ index' = [index EXCEPT ![t] = ans - 1]
                    /\ cbi' = [cbi EXCEPT ![t] = 1]
                    /\ Goto(t, "w_124")
                    /\ UNCHANGED fatal
               ELSE /\ Goto(t, "w_116")
                    /\ UNCHANGED <<index, cbi, fatal>>
       \/ /\ Except(t)
          /\ UNCHANGED <<index, cbi, engine>>
    /\ UNCHANGED <<config, on_detected_callbacks, flags, detection_thread,
                   handles, ret, invoked, audioSt, streamSt, history>>

\* line 120, the return, and lines 121-123: the read yields one frame or
\* raises (either may happen when the stream was stopped or closed under
\* it); RunDetection on the frame returns ans or raises; a positive ans is
\* a match of model ans-1.  The engine fed is the one self.detector names
\* at that moment; it returns a positive ans when it reports a hotword.
loop_121(t) ==
    /\ pc[t] = "w_121"
    /\ strm' = [strm EXCEPT ![t] = None]
    /\ \/ \E ans \in AnsValues :
            /\ engine' = IF ans > 0
                         THEN [engine EXCEPT ![detector] = "matched"]
                         ELSE engine
            /\ IF ans > 0
               THEN /\ index' = [index EXCEPT ![t] = ans - 1]
                    /\ cbi' = [cbi EXCEPT ![t] = 1]
                    /\ Goto(t, "w_124")
                    /\ UNCHANGED fatal
               ELSE /\ Goto(t, "w_116")
                    /\ UNCHANGED <<index, cbi, fatal>>
       \/ /\ Except(t)
          /\ UNCHANGED <<index, cbi, engine>>
    /\ UNCHANGED <<config, on_detected_callbacks, flags, detection_thread,
                   handles, ret, invoked, audioSt, streamSt, history>>

\* _trigger_callbacks without the try/except of lines 96-99: an exception
\* of a callback leaves the for loop and reaches the except clause of
\* line 126.
trigger_callbacks_unguarded(t) ==
    /\ pc[t] = "w_124"
    /\ cbi[t] <= Len(on_detected_callbacks)
    /\ \E raised \in BOOLEAN :
         /\ invoked' = [invoked EXCEPT ![t] =
               Append(@, [cb |-> on_detected_callbacks[cbi[t]],
                          path |-> PathAt(index[t]),
                          label |-> Label(index[t]),
                          raised |-> raised])]
         /\ IF raised
            THEN Except(t)
            ELSE UNCHANGED <<pc, fatal>>
    /\ cbi' = [cbi EXCEPT ![t] = @ + 1]
    /\ UNCHANGED <<config, on_detected_callbacks, flags, detection_thread,
                   handles, ret, strm, index, objects, history>>

\* lines 95-99, one iteration of the for loop over the list (by position,
\* so that a callback appended meanwhile is reached too): the callback is
\* called, and an exception it raises is caught and logged.
trigger_callbacks(t) ==
    /\ pc[t] = "w_124"
    /\ cbi[t] <= Len(on_detected_callbacks)
    /\ \E raised \in BOOLEAN :
         invoked' = [invoked EXCEPT ![t] =
            Append(@, [cb |-> on_detected_callbacks[cbi[t]],
                       path |-> PathAt(index[t]),
                       label |-> Label(index[t]),
                       raised |-> raised])]
    /\ cbi' = [cbi EXCEPT ![t] = @ + 1]
    /\ UNCHANGED <<config, on_detected_callbacks, flags, detection_thread,
                   handles, pc, ret, strm, index, fatal, objects, history>>

\* line 125 without the Reset().
loop_125_no_reset(t) ==
    /\ pc[t] = "w_124"
    /\ cbi[t] > Len(on_detected_callbacks)
    /\ index' = [index EXCEPT ![t] = 0]
    /\ cbi' = [cbi EXCEPT ![t] = 0]
    /\ invoked' = [invoked EXCEPT ![t] = <<>>]
    /\ Goto(t, "w_116")
    /\ UNCHANGED <<config, on_detected_callbacks, flags, detection_thread,
                   handles, ret, strm, fatal, objects, history>>

\* the for loop of line 95 is exhausted and _trigger_callbacks returns;
\* line 125: Reset(), then the loop condition again.
loop_125(t) ==
    /\ pc[t] = "w_124"
    /\ cbi[t] > Len(on_detected_callbacks)
    /\ index' = [index EXCEPT ![t] = 0]
    /\ cbi' = [cbi EXCEPT ![t] = 0]
    /\ invoked' = [invoked EXCEPT ![t] = <<>>]
    /\ engine' = [engine EXCEPT ![detector] = "fresh"]
    /\ Goto(t, "w_116")
    /\ UNCHANGED <<config, on_detected_callbacks, flags, detection_thread,
                   handles, ret, strm, fatal, audioSt, streamSt, history>>

\* positions of a worker inside the body of the while loop (lines 117-125)
LoopBody == {"w_117", "w_120", "w_121", "w_124"}

\* positions of a worker inside _detection_loop before its finally clause
InLoop == {"w_106", "w_109", "w_116"} \cup LoopBody

StopPcs == {"stop_59", "stop_60", "stop_61", "stop_61_join", "stop_62",
            "stop_66", "stop_69", "stop_74", "stop_75"}

\* ---- the system ---------------------------------------------------------
start(c) ==
    start_45(c) \/ start_51(c) \/ start_52(c) \/ start_53(c) \/ start_54(c)

stop(a) ==
    \/ stop_59(a) \/ stop_60(a) \/ stop_61(a) \/ stop_61_join(a)
    \/ stop_62(a) \/ stop_66(a) \/ stop_69(a) \/ stop_74(a) \/ stop_75(a)

pause(c) == pause_79(c) \/ pause_80(c)

resume(c) == resume_84(c) \/ resume_85(c)

detection_loop(t) ==
    \/ loop_106(t) \/ loop_109(t) \/ loop_116(t) \/ loop_117(t)
    \/ loop_120(t) \/ loop_121(t) \/ trigger_callbacks(t) \/ loop_125(t)

\* The caller threads C use the controller while the workers run.
NextFor(C) ==
    \/ \E c \in C : start(c)
    \/ \E c \in C : pause(c)
    \/ \E c \in C : resume(c)
    \/ \E c \in C : on_detected(c)
    \/ \E a \in C \cup Threads : stop(a)
    \/ \E t \in Threads : detection_loop(t)

Next == NextFor(Callers)

\* the single caller of a sequential use
SeqCallers == {MaxThreads + 1}

NextSeq == NextFor(SeqCallers)

\* Concurrent callers and the workers, interleaved in every order.
Spec == Init /\ [][Next]_vars

\* One caller, whose calls follow one another, and the workers.
SpecSeq == InitSeq /\ [][NextSeq]_vars

\* The steps of a stop() that has been called: lines 60-76.
stop_called(a) ==
    \/ stop_60(a) \/ stop_61(a) \/ stop_61_join(a) \/ stop_62(a)
    \/ stop_66(a) \/ stop_69(a) \/ stop_74(a) \/ stop_75(a)

\* One caller and the workers; the caller's thread is scheduled, so a stop()
\* it has called goes on as long as it has a step to take.  Nothing is
\* assumed of the workers: a worker may stay in its read for ever.
SpecStopFair ==
    /\ InitFair /\ [][NextSeq]_vars
    /\ \A c \in SeqCallers : WF_vars(stop_called(c))

\* One caller and the workers; every worker thread is scheduled and its
\* blocking calls (sleep, read, callbacks) return.  Nothing is assumed of
\* the caller.
SpecWorkerFair ==
    /\ InitSeq /\ [][NextSeq]_vars
    /\ \A t \in Threads : WF_vars(detection_loop(t))

\* One caller and the workers, on a controller of arbitrary arguments.
SpecCtor == InitCtor /\ [][NextSeq]_vars

TypeOK ==
    /\ running \in BOOLEAN /\ paused \in BOOLEAN
    /\ detection_thread \in {None} \cup Threads
    /\ audio \in {None} \cup Threads
    /\ stream \in {None} \cup Threads
    /\ detector \in {None} \cup Threads
    /\ ops \in 0..budget

\* ---- claims -------------------------------------------------------------

\* Threads that have been started (alive or ended).
Started == {t \in Threads : pc[t] \notin {"unborn", "new"}}

\* No caller is between the run-flag test and the return of start().
NoStartInFlight == \A c \in Callers : pc[c] \notin StartPcs

\* C1: with enabled = true, start() issued while no run is active sets
\* running, clears the pause flag, creates exactly one Thread, starts it and
\* returns true; start() issued while running is set (Running or Paused)
\* returns true at once, starts no thread and changes neither flag nor
\* detection_thread.  Checked for a caller whose calls follow one another.
C1_StartContract ==
    [][\A c \in SeqCallers :
        /\ (start_45(c) /\ enabled /\ running) =>
              /\ ret'[c] = "true" /\ pc'[c] = "idle"
              /\ UNCHANGED <<running, paused, detection_thread, handles>>
              /\ \A t \in Threads : pc'[t] = pc[t]
        /\ (start_45(c) /\ enabled /\ ~running) => pc'[c] = "start_51"
        /\ (pc[c] = "start_51" /\ pc'[c] # pc[c]) =>
              running' /\ pc'[c] = "start_52"
        /\ (pc[c] = "start_52" /\ pc'[c] # pc[c]) =>
              ~paused' /\ pc'[c] = "start_53"
        /\ (pc[c] = "start_53" /\ pc'[c] # pc[c]) =>
              /\ pc'[c] = "start_54"
              /\ detection_thread' \notin Started
              /\ pc[detection_thread'] = "unborn"
        /\ (pc[c] = "start_54" /\ pc'[c] # pc[c]) =>
              /\ ret'[c] = "true" /\ pc'[c] = "idle"
              /\ ~paused'
              /\ Started' = Started \cup {detection_thread}
              /\ detection_thread \notin Started
              /\ pc'[detection_thread] = "w_106"
    ]_vars

\* C1 witness: a start() after start(), pause(), stop() is about to clear
\* the pause flag the earlier run left set.
C1_Witness ==
    \E c \in SeqCallers :
        /\ pc[c] = "start_52" /\ paused /\ running
        /\ detection_thread # None /\ callerStopCalled

\* C2: at most one worker thread is alive inside _detection_loop at any
\* time, whatever the interleaving of the callers' start(), stop(), pause()
\* and resume().
C2_AtMostOneWorker ==
    Cardinality({t \in Threads : pc[t] \in InLoop}) <= 1

\* C3: stop() never raises, from whichever thread and in whichever state
\* it is called: no caller's stop() ends with an exception, and no worker
\* is ended by an exception of the stop() it calls on its exit path.
C3_StopNeverRaises ==
    /\ \A c \in Callers : ret[c] # "stop_raised"
    /\ \A t \in Threads : pc[t] # "crashed"

\* C4: once a caller's stop() has returned and no start() was issued since
\* (none is in flight either, the run flag is still clear and no other
\* stop() is at work), no worker is inside a read of the audio stream,
\* feeding the engine or invoking callbacks.
C4_NoWorkerAfterStop ==
    (/\ stopReturned /\ NoStartInFlight /\ ~running
     /\ \A c \in Callers : pc[c] = "idle") =>
        \A t \in Threads : pc[t] \notin {"w_121", "w_124"}

\* No caller and no worker is inside stop().
NoStopInProgress == \A a \in Actors : pc[a] \notin StopPcs

\* C5: whenever the state is Idle or Stopped and no stop() is still at
\* work, the audio device, the audio stream and the detector are all null.
C5_HandlesNullWhenInactive ==
    (State \in {"Idle", "Stopped"} /\ NoStopInProgress /\ NoStartInFlight) =>
        (audio = None /\ stream = None /\ detector = None)

\* C6: when a worker that had opened its stream ended on a fatal read or
\* inference error, no caller ever called stop() and no later start() is in
\* flight, is_running() is false and the worker's exit path has closed its
\* stream, terminated its device and cleared both handles.
C6_FatalExitReleases ==
    \A t \in Threads :
        (/\ pc[t] \in {"dead", "crashed"}
         /\ fatal[t] /\ streamSt[t] # "none"
         /\ ~callerStopCalled
         /\ detection_thread = t /\ NoStartInFlight) =>
            /\ ~is_running
            /\ streamSt[t] = "closed" /\ audioSt[t] = "terminated"
            /\ stream = None /\ audio = None

\* The state is Paused by a pause() that has returned, and no resume() or
\* start() is about to clear the flag.
PausedQuiet ==
    /\ State = "Paused"
    /\ \A c \in Callers : pc[c] # "resume_85"
    /\ NoStartInFlight

\* A step in which worker t begins a read, feeds the frame read to the
\* engine, or invokes a callback.
ReadsOrDetects(t) ==
    \/ pc[t] = "w_120" /\ pc'[t] = "w_121"
    \/ pc[t] = "w_121" /\ pc'[t] \in {"w_116", "w_124"}
    \/ pc[t] = "w_124" /\ Len(invoked'[t]) > Len(invoked[t])

\* C7 as stated: while the state is Paused (pause() has returned, resume()
\* not yet called) no worker reads a frame, feeds the engine or invokes a
\* callback, in every interleaving.
C7_NoFrameWhilePaused ==
    [][PausedQuiet => \A t \in Threads : ~ReadsOrDetects(t)]_vars

\* C7 as amended: a worker begins a read only straight after it tested the
\* pause flag and found it clear, and a worker that finds the flag set goes
\* back to the loop condition without reading; so the only frame read, fed
\* or matched while Paused is that of the one iteration that had passed its
\* pause test before pause() set the flag.
C7_ReadOnlyAfterClearPauseTest ==
    [][\A t \in Threads :
        /\ (pc'[t] = "w_120" /\ pc[t] # "w_120") =>
              (pc[t] = "w_117" /\ ~paused)
        /\ (pc'[t] = "w_121" /\ pc[t] # "w_121") => pc[t] = "w_120"
        /\ (pc'[t] = "w_124" /\ pc[t] # "w_124") => pc[t] = "w_121"
        /\ (pc[t] = "w_117" /\ paused /\ pc'[t] # pc[t]) =>
              (pc'[t] = "w_116" /\ UNCHANGED <<handles, objects, wlocals>>)
    ]_vars

\* C7 witness: a worker polls the loop condition while the state is Paused
\* and its stream is open.
C7_Witness ==
    \E t \in Threads :
        /\ pc[t] = "w_117" /\ PausedQuiet
        /\ stream = t /\ streamSt[t] = "active"
        /\ \A c \in Callers : pc[c] = "idle"

\* C8: a step of pause() changes the state only from Running to Paused, a
\* step of resume() only from Paused to Running; a pause() issued in
\* Running goes on to set the flag and a resume() issued in Paused to clear
\* it; neither touches the run flag, a resource handle, the device or the
\* stream, detection_thread or any worker.
C8_PauseResumeFrame ==
    [][\A c \in Callers :
        /\ pause(c) =>
              /\ State' # State => (State = "Running" /\ State' = "Paused")
              /\ (pc[c] = "idle" /\ State = "Running") => pc'[c] = "pause_80"
              /\ (pc[c] = "idle" /\ State # "Running") =>
                    (pc'[c] = "idle" /\ paused' = paused)
              /\ pc[c] = "pause_80" => paused'
        /\ resume(c) =>
              /\ State' # State => (State = "Paused" /\ State' = "Running")
              /\ (pc[c] = "idle" /\ State = "Paused") => pc'[c] = "resume_85"
              /\ (pc[c] = "idle" /\ State # "Paused") =>
                    (pc'[c] = "idle" /\ paused' = paused)
              /\ pc[c] = "resume_85" => ~paused'
        /\ (pause(c) \/ resume(c)) =>
              /\ UNCHANGED <<running, handles, objects, detection_thread,
                             wlocals, on_detected_callbacks>>
              /\ \A t \in Threads : pc'[t] = pc[t]
    ]_vars

\* C8 witness: after pause() has set the flag, a resume() is about to clear
\* it while the worker is alive on the stream and device it opened.
C8_Witness ==
    \E c \in Callers, t \in Threads :
        /\ pc[c] = "resume_85" /\ State = "Paused"
        /\ detection_thread = t /\ IsAlive(t) /\ pc[t] \in InLoop
        /\ stream = t /\ audio = t /\ detector = t
        /\ streamSt[t] = "active" /\ audioSt[t] = "open"

\* C9: while a worker is in _trigger_callbacks for a match of index i, the
\* callbacks it has invoked are the first registered ones, once each and in
\* registration order, each with (the path of model i, the label of i); an
\* invocation, raising or not, leaves the worker in the loop over the
\* callbacks, which it leaves only after the last registered callback, and
\* then back to the loop condition, not to the exit path.
C9_CallbacksInOrder ==
    /\ [](\A t \in Threads :
            pc[t] = "w_124" =>
              /\ index[t] \in 0..(NumModels - 1)
              /\ Len(invoked[t]) = cbi[t] - 1
              /\ Len(invoked[t]) <= Len(on_detected_callbacks)
              /\ \A k \in 1..Len(invoked[t]) :
                    /\ invoked[t][k].cb = on_detected_callbacks[k]
                    /\ invoked[t][k].cb = k
                    /\ invoked[t][k].path = ModelPath(index[t] + 1)
                    /\ invoked[t][k].label = <<"label", index[t]>>)
    /\ [][\A t \in Threads :
            /\ (pc[t] = "w_124" /\ invoked'[t] # invoked[t]
                   /\ Len(invoked[t]) < Len(on_detected_callbacks)) =>
                  /\ pc'[t] = "w_124"
                  /\ Len(invoked'[t]) = Len(invoked[t]) + 1
                  /\ SubSeq(invoked'[t], 1, Len(invoked[t])) = invoked[t]
            /\ (pc[t] = "w_124" /\ pc'[t] # "w_124") =>
                  /\ pc'[t] = "w_116"
                  /\ Len(invoked[t]) = Len(on_detected_callbacks)
       ]_vars

\* C9 witness: for a match of index 1 a worker has invoked both registered
\* callbacks, the second after the first one raised.
C9_Witness ==
    \E t \in Threads :
        /\ pc[t] = "w_124" /\ index[t] = 1
        /\ Len(on_detected_callbacks) = 2 /\ Len(invoked[t]) = 2
        /\ invoked[t][1].raised /\ ~invoked[t][2].raised

\* C10: is_running() is true exactly in state Running: false in Idle, in
\* Paused (with the worker alive) and in Stopped, also when the run was
\* ended by a fatal error of the worker and not by a caller's stop().
C10_IsRunningIffRunning ==
    /\ is_running <=> State = "Running"
    /\ State \in {"Idle", "Paused", "Stopped"} => ~is_running
    /\ \A t \in Threads :
          (/\ fatal[t] /\ pc[t] \in {"dead", "crashed"}
           /\ detection_thread = t /\ NoStartInFlight) =>
              (State = "Stopped" /\ ~is_running)

\* C10 witness: the state is Paused, the worker is alive in its loop, and
\* is_running() is false.
C10_Witness ==
    \E t \in Threads :
        /\ State = "Paused" /\ ~is_running
        /\ detection_thread = t /\ pc[t] \in LoopBody
        /\ \A c \in Callers : pc[c] = "idle"

\* C11: on a controller that is not enabled, start() returns false at once
\* and changes no field, no Thread and no audio object; such a controller
\* never has a worker, a handle set or a call that raised.
C11_DisabledStartIsNoOp ==
    /\ [](~enabled =>
            /\ \A t \in Threads : pc[t] = "unborn"
            /\ ~running /\ detection_thread = None
            /\ audio = None /\ stream = None /\ detector = None
            /\ \A c \in SeqCallers :
                  /\ ret[c] \notin {"true", "start_raised", "stop_raised"}
                  /\ pc[c] \notin StartPcs)
    /\ [][\A c \in SeqCallers :
            (start_45(c) /\ ~enabled) =>
                /\ ret'[c] = "false" /\ pc'[c] = "idle"
                /\ UNCHANGED <<config, on_detected_callbacks, flags,
                               detection_thread, handles, wlocals, objects>>
                /\ \A t \in Threads : pc'[t] = pc[t]
       ]_vars

\* C11 witness: a controller with model paths but no wake engine, whose
\* start() has returned false after an earlier stop().
C11_Witness ==
    \E c \in SeqCallers :
        /\ ~enabled /\ Len(model_paths) > 0
        /\ ret[c] = "false" /\ pc[c] = "idle"
        /\ callerStopCalled /\ ~stopReturned

\* C12: every constructed controller has one sensitivity entry per model
\* path (a sequence of another length is rejected by __init__, a number is
\* broadcast).
C12_SensitivityPerModel ==
    Len(sensitivity) = Len(model_paths)

\* C13: no step of a caller's stop() stops, closes or clears the stream
\* while a worker is between its loop condition and the end of a read on
\* that stream, and no worker attempts a read on a stream handle that is
\* cleared, stopped or closed.
C13_StreamAccessGuarded ==
    [][/\ \A a \in Callers, t \in Threads :
            (/\ pc[a] \in {"stop_62", "stop_66", "stop_74"}
             /\ pc'[a] # pc[a]
             /\ pc[t] \in {"w_117", "w_120", "w_121"}
             /\ stream = t) =>
                (stream' = stream /\ streamSt'[t] = streamSt[t])
       /\ \A t \in Threads :
            (pc[t] = "w_120" /\ pc'[t] # pc[t]) =>
                (stream # None /\ streamSt[stream] = "active")
    ]_vars

\* C14: when a worker ended on a failure of the stream open after it had
\* created the audio device (it never had a stream), no caller called
\* stop() and no later start() is in flight, the handles of the device and
\* of the stream are cleared and the state is Stopped.
C14_AcquisitionFailureTearsDown ==
    \A t \in Threads :
        (/\ pc[t] \in {"dead", "crashed"}
         /\ fatal[t] /\ streamSt[t] = "none" /\ audioSt[t] # "none"
         /\ ~callerStopCalled
         /\ detection_thread = t /\ NoStartInFlight) =>
            /\ audio = None /\ stream = None
            /\ State = "Stopped"

\* C15: in stop(), run by a caller or a worker, teardown goes from the
\* stream (lines 62-68) to the device (lines 69-73) to the clearing of both
\* handles (lines 74-75) and the return, whether or not is_active(),
\* stop_stream(), close() or terminate() raised: no step of it raises out of
\* stop(), the device is reached after every outcome of the stream's
\* teardown, line 74 clears stream and line 75 clears audio.
C15_TeardownIsolated ==
    [][\A a \in Actors :
        /\ (pc[a] = "stop_62" /\ pc'[a] # pc[a]) =>
              pc'[a] \in {"stop_66", "stop_69"}
        /\ (pc[a] = "stop_66" /\ pc'[a] # pc[a]) => pc'[a] = "stop_69"
        /\ (pc[a] = "stop_69" /\ pc'[a] # pc[a]) =>
              /\ pc'[a] = "stop_74"
              /\ streamSt' = streamSt
        /\ (pc[a] = "stop_74" /\ pc'[a] # pc[a]) =>
              (pc'[a] = "stop_75" /\ stream' = None)
        /\ (pc[a] = "stop_75" /\ pc'[a] # pc[a]) =>
              /\ audio' = None
              /\ a \in Callers => (pc'[a] = "idle" /\ ret'[a] = "none")
              /\ a \in Threads => pc'[a] = "dead"
    ]_vars

\* C15 witness: a caller's stop() has returned normally with both handles
\* cleared and the device terminated although stop_stream() had raised, so
\* that the stream was left active and never closed.
C15_Witness ==
    \E c \in Callers, t \in Threads :
        /\ pc[c] = "idle" /\ ret[c] = "none" /\ stopReturned
        /\ streamSt[t] = "active" /\ audioSt[t] = "terminated"
        /\ stream = None /\ audio = None
        /\ pc[t] \in {"dead", "crashed"}

\* The last run was ended by a fatal error of worker t.
FailedRun(t) ==
    /\ fatal[t] /\ pc[t] \in {"dead", "crashed"}
    /\ detection_thread = t

\* C16: after a run ended by a fatal error the run flag and is_running()
\* are false until a start(); a worker that hit a fatal error goes to its
\* exit path and never back into _detection_loop; a Thread is started only
\* by line 54 of a start() and the run flag set only by line 51; a start()
\* issued after the failed run goes on to line 51, returns true and has
\* started a Thread that had no failure, which creates its own detector,
\* audio device and stream.  Checked for a caller whose calls follow one
\* another.
C16_NoAutoRetry ==
    /\ [](\A t \in Threads :
            (FailedRun(t) /\ NoStartInFlight) => (~running /\ ~is_running))
    /\ [][/\ \A t \in Threads :
              /\ (fatal'[t] /\ ~fatal[t]) => pc'[t] = "stop_59"
              /\ fatal[t] => pc'[t] \notin InLoop
              /\ (pc[t] \in {"unborn", "new"}
                    /\ pc'[t] \notin {"unborn", "new"}) =>
                    /\ pc'[t] = "w_106" /\ detection_thread = t
                    /\ \E c \in SeqCallers :
                          /\ pc[c] = "start_54" /\ pc'[c] = "idle"
                          /\ ret'[c] = "true"
              /\ (pc[t] = "w_106" /\ pc'[t] = "w_109") =>
                    /\ detector' = t /\ audio' = t
                    /\ audioSt[t] = "none" /\ audioSt'[t] = "open"
                    /\ engine[t] = "none" /\ engine'[t] = "fresh"
              /\ (pc[t] = "w_109" /\ pc'[t] = "w_116") =>
                    /\ stream' = t
                    /\ streamSt[t] = "none" /\ streamSt'[t] = "active"
          /\ (running' /\ ~running) =>
                \E c \in SeqCallers : pc[c] = "start_51"
          /\ \A c \in SeqCallers :
                (start_45(c) /\ enabled /\ \E t \in Threads : FailedRun(t)) =>
                    pc'[c] = "start_51"
       ]_vars

\* C16 witness: after the first worker ended on a fatal error and without
\* any stop() by the caller, a second start() has returned true and its
\* worker runs the loop on the detector, device and stream it created.
C16_Witness ==
    \E c \in SeqCallers, t \in Threads, u \in Threads :
        /\ t # u /\ fatal[t] /\ pc[t] \in {"dead", "crashed"}
        /\ ~callerStopCalled /\ pc[c] = "idle" /\ ret[c] = "true"
        /\ running /\ detection_thread = u /\ pc[u] = "w_117" /\ ~fatal[u]
        /\ detector = u /\ audio = u /\ stream = u
        /\ streamSt[u] = "active"

\* C17: a worker leaves its match handling only by the step of line 125,
\* taken after the loop over the callbacks is exhausted (every registered
\* callback invoked, raising or not), and that step resets the engine; no
\* invocation of a callback resets it, the engine is reset by no other step,
\* and a worker begins a read only from the pause test, not from inside the
\* match handling.
C17_ResetAfterCallbacks ==
    [][/\ \A t \in Threads :
          /\ (pc[t] = "w_124" /\ pc'[t] # "w_124") =>
                /\ pc'[t] = "w_116"
                /\ Len(invoked[t]) = Len(on_detected_callbacks)
                /\ cbi[t] = Len(on_detected_callbacks) + 1
                /\ engine'[detector] = "fresh"
          /\ (pc[t] = "w_124" /\ invoked'[t] # invoked[t]
                 /\ pc'[t] = "w_124") => engine' = engine
          /\ (pc'[t] = "w_120" /\ pc[t] # "w_120") => pc[t] = "w_117"
       /\ \A d \in Threads :
          (engine[d] = "matched" /\ engine'[d] = "fresh") =>
              \E t \in Threads :
                  /\ pc[t] = "w_124" /\ pc'[t] = "w_116" /\ detector = d
    ]_vars

\* C17 witness: a worker has invoked both registered callbacks for a match,
\* one of them raised, and the engine is about to be reset.
C17_Witness ==
    \E t \in Threads :
        /\ pc[t] = "w_124" /\ cbi[t] > Len(on_detected_callbacks)
        /\ Len(invoked[t]) = MaxCallbacks
        /\ \E k \in 1..Len(invoked[t]) : invoked[t][k].raised
        /\ detector = t /\ engine[t] = "matched"

\* C20: a worker is in its match handling only for a model index of
\* 0..len(model_paths)-1 and has invoked callbacks only there; the step that
\* takes the result of RunDetection goes to the match handling exactly when
\* the engine reported a hotword, with index = ans-1, and otherwise back to
\* the loop condition with no callback invoked and the engine not reset, or
\* to the exit path when the read or the engine raised; a frame is taken
\* only from a read begun at line 120.
C20_OnlyPositiveResultMatches ==
    /\ [](\A t \in Threads :
            /\ pc[t] = "w_124" =>
                  index[t] \in 0..(Len(model_paths) - 1)
            /\ pc[t] # "w_124" => (invoked[t] = <<>> /\ cbi[t] = 0))
    /\ [][\A t \in Threads :
            /\ (pc[t] = "w_121" /\ pc'[t] # pc[t]) =>
                  \/ /\ pc'[t] = "w_124"
                     /\ engine'[detector] = "matched"
                     /\ \E r \in 1..Len(model_paths) : index'[t] = r - 1
                     /\ cbi'[t] = 1 /\ invoked'[t] = <<>>
                  \/ /\ pc'[t] = "w_116"
                     /\ engine' = engine
                     /\ invoked'[t] = <<>> /\ ~fatal'[t]
                  \/ /\ pc'[t] = "stop_59"
                     /\ fatal'[t] /\ engine' = engine
            /\ (pc'[t] = "w_121" /\ pc[t] # "w_121") => pc[t] = "w_120"
       ]_vars

\* C20 witness: the engine has returned NumModels for a frame and the worker
\* is in the match handling of index NumModels - 1, about to invoke the
\* first registered callback.
C20_Witness ==
    \E t \in Threads :
        /\ pc[t] = "w_124" /\ index[t] = NumModels - 1
        /\ detector = t /\ engine[t] = "matched"
        /\ Len(invoked[t]) = 0 /\ Len(on_detected_callbacks) > 0

\* C18: a stop() called by a caller always returns, normally and with
\* self.audio cleared, whatever the workers do; it is not held up by a
\* worker that never returns from its read.
C18_StopTerminates ==
    \A c \in SeqCallers :
        (pc[c] \in StopPcs) ~>
            (pc[c] = "idle" /\ ret[c] = "none" /\ stopReturned
               /\ audio = None)

\* C18 witness: the caller's stop() has returned with both handles cleared
\* and the device terminated while the worker is still inside the read it
\* began before.
C18_Witness ==
    \E c \in SeqCallers, t \in Threads :
        /\ pc[c] = "idle" /\ ret[c] = "none" /\ stopReturned
        /\ detection_thread = t /\ pc[t] = "w_121" /\ strm[t] = t
        /\ stream = None /\ audio = None
        /\ audioSt[t] = "terminated"

\* C19 as stated: once a stop() was called while the state was Paused (the
\* pause flag is set, the run flag clear, the caller's last call is that
\* stop() and no start() has followed), no worker begins a read.
C19_NoReadAfterStopWhilePaused ==
    [][(/\ paused /\ ~running /\ NoStartInFlight
        /\ \E c \in SeqCallers : stopReturned \/ pc[c] \in StopPcs) =>
            \A t \in Threads : ~(pc[t] = "w_120" /\ pc'[t] = "w_121")
    ]_vars

\* C19 as amended: with the pause flag set and the run flag clear, every
\* worker in _detection_loop leaves it (or a start() sets the run flag
\* again), without any resume(); a worker that finds the pause flag set goes
\* back to the loop condition without reading, and from the loop condition
\* with the run flag clear to its exit path; when a later start() returns,
\* the pause flag is clear.  Only an iteration that had passed its pause
\* test before pause() set the flag still reads its frame.
C19_PausedWorkerObservesStop ==
    /\ \A t \in Threads :
          (paused /\ ~running /\ pc[t] \in InLoop) ~>
              (pc[t] \notin InLoop \/ running)
    /\ [][/\ \A t \in Threads :
              /\ (pc[t] = "w_116" /\ ~running /\ pc'[t] # pc[t]) =>
                    pc'[t] = "stop_59"
              /\ (pc[t] = "w_117" /\ paused /\ pc'[t] # pc[t]) =>
                    pc'[t] = "w_116"
              /\ (pc[t] \in InLoop \cup StopPcs /\ pc'[t] # pc[t]) =>
                    paused' = paused
          /\ \A c \in SeqCallers :
              (pc[c] = "start_54" /\ pc'[c] = "idle") => ~paused'
       ]_vars

\* C19 witness: after pause() and stop() by the caller, the worker has left
\* the loop by its loop condition (no fatal error), with the pause flag
\* still set and no resume() possible.
C19_Witness ==
    \E c \in SeqCallers, t \in Threads :
        /\ paused /\ ~running /\ callerStopCalled
        /\ detection_thread = t /\ ~fatal[t]
        /\ pc[t] \in StopPcs \cup {"dead", "crashed"}
        /\ pc[c] \in StopPcs

====
